---------------------------- MODULE Spec2Model ----------------------------
(***************************************************************************)
(* A model of the inventory/sales backend of src/backend/server.py.        *)
(*                                                                         *)
(* The document store is modelled collection by collection: users is a     *)
(* sequence in insertion order (find_one returns the first match, and      *)
(* nothing enforces uniqueness), vendors, customers and products are maps   *)
(* from the uuid of a document to the document, sales and company are     *)
(* sequences in insertion order.                                           *)
(* Every await on the store is a point where another request may run: a    *)
(* request is modelled one store call per step, the lookup of the caller   *)
(* by the guard being the first call of a guarded request.                 *)
(* Of the fields a handler only copies (address, phone, the item's         *)
(* product_name and selling_price) the model keeps the name; of the        *)
(* created_at fields it keeps that of a sale, which orders the listing of  *)
(* the sales and keys the dashboard's monthly totals.                      *)
(* Prices and totals are floats in the code and small integers here.       *)
(***************************************************************************)
EXTENDS Integers, Sequences, FiniteSets, TLC

VARIABLES
    clock,      \* datetime.utcnow(), in whole seconds
    users,      \* db.users, in insertion order
    tokens,     \* the Token responses login has handed out
    vendors,    \* db.vendors, id -> document
    customers,  \* db.customers, id -> document
    products,   \* db.products, id -> document
    minted,     \* the uuids generated so far
    sales,      \* db.sales, in insertion order
    company,    \* db.company, in insertion order
    reg,        \* the register requests in flight
    call,       \* the create_sale requests in flight
    req,        \* the other requests in flight behind the guard
    resp,       \* the response the last step delivered, if it delivered one
    audit       \* history: for each stored sale, what its call had read

vars == <<clock, users, tokens, vendors, customers, products, minted, sales,
          company, reg, call, req, resp, audit>>

store == <<users, vendors, customers, products, sales, company>>

(***************************************************************************)
(* Bounds of the model.                                                    *)
(***************************************************************************)
MaxItems == 2       \* items in one sale request
MaxStock == 2       \* largest quantity given to create_product/update_product
MaxSales == 1       \* sale documents stored before a further sale begins
MaxUsers == 2       \* user documents stored
MaxTokens == 2      \* tokens handed out
MaxTicks == 3       \* clock steps taken

(***************************************************************************)
(* Program constants and input alphabets.                                  *)
(***************************************************************************)
SECRET_KEY == "your-secret-key-here"
ACCESS_TOKEN_EXPIRE_MINUTES == 30
ADMIN == "admin"
USER == "user"
UserRole == {ADMIN, USER}

Usernames == {"alice", "bob"}
Emails == {"a@x", "b@x"}
Passwords == {"pw1", "pw2"}
Salts == {"salt"}
VendorIds == {"v1"}
CustomerIds == {"c1", "c2"}
ProductIds == {"p1", "p2"}
VendorNames == {"acme"}
ProductNames == {"nut", "bolt"}
CompanyIds == {"co1", "co2"}
CompanyNames == {"ABC Pvt Ltd", "newco"}
LineTotals == {75, 80}
SaleQuantities == {1, 2}
SignedQuantities == {-1, 1, 2}
TickSeconds == 900  \* seconds the clock advances in one step
Regs == {"r1", "r2"}
Calls == {"k1", "k2"}
Reqs == {"q1", "q2"}

None == "None"

(***************************************************************************)
(* Helpers on collections.                                                 *)
(***************************************************************************)
EmptyColl == [i \in {} |-> None]

insert_one(coll, doc) ==
    [i \in DOMAIN coll \cup {doc.id} |-> IF i = doc.id THEN doc ELSE coll[i]]

delete_one(coll, id) == [i \in DOMAIN coll \ {id} |-> coll[i]]

matched_always(coll, id) == TRUE

\* replace_one's matched_count, delete_one's deleted_count: not 0
matched(coll, id) == id \in DOMAIN coll

\* uuid.uuid4(): an identifier no document has had before
uuid4(pool) == CHOOSE i \in pool \ minted : TRUE

\* indexes of the user documents whose username is u
ByUsername(u) == {i \in 1..Len(users) : users[i].username = u}

Min(S) == CHOOSE x \in S : \A y \in S : x <= y

\* db.users.find_one({"username": u}): the first such document (when
\* ByUsername(u) is not empty)
find_user(u) == users[Min(ByUsername(u))]

(***************************************************************************)
(* Passwords and tokens.                                                   *)
(***************************************************************************)
\* bcrypt.hashpw(password, gensalt()): a digest that depends on the salt
hash_password(password, salt) == [salt |-> salt, digest |-> <<salt, password>>]

\* bcrypt.checkpw: hash the candidate with the stored salt and compare
verify_password(password, hashed) ==
    hash_password(password, hashed.salt).digest = hashed.digest

\* jwt.encode of {"sub": ..., "exp": now + 30 minutes} under SECRET_KEY
create_access_token(sub, now) ==
    [sub |-> sub, exp |-> now + ACCESS_TOKEN_EXPIRE_MINUTES * 60, sig |-> SECRET_KEY]

\* the view of a user document that User(**user_data) keeps
UserView(doc) ==
    [id |-> doc.id, username |-> doc.username, email |-> doc.email, role |-> doc.role]

NoUser == [id |-> 0, username |-> None, email |-> None, role |-> None]

\* the releases of PyJWT that `import jwt` may resolve to: the repository
\* pins none, and jwt.PyJWTError (l.171) is defined by 1.6 and later.  The
\* 1.x releases raise ExpiredSignatureError when exp < now, the 2.x
\* releases when exp <= now
JwtRules == {"1.x", "2.x"}

jwt_decode_no_expiry(token, now, rule) == token.sig = SECRET_KEY

\* jwt.decode: the signature is verified, then exp against the clock, under
\* the rule of the release installed; the releases differ only at exp = now
jwt_decode_ok(token, now, rule) ==
    token.sig = SECRET_KEY /\ ~(IF rule = "1.x" THEN token.exp < now ELSE token.exp <= now)

\* get_current_user before its await: jwt.decode against the clock, and
\* the subject of the payload
credentials(token, rule) ==
    IF ~jwt_decode_ok(token, clock, rule)
    THEN [status |-> 401, detail |-> "Invalid token", user |-> NoUser]
    ELSE IF token.sub = None
    THEN [status |-> 401, detail |-> "Invalid authentication credentials", user |-> NoUser]
    ELSE [status |-> 200, detail |-> "", user |-> NoUser]

\* get_current_user from its await on: db.users.find_one({"username": sub})
current_user(username) ==
    IF ByUsername(username) = {}
    THEN [status |-> 401, detail |-> "User not found", user |-> NoUser]
    ELSE [status |-> 200, detail |-> "", user |-> UserView(find_user(username))]

\* get_current_user when no step falls into its await
get_current_user(token, rule) ==
    IF credentials(token, rule).status # 200 THEN credentials(token, rule)
    ELSE current_user(token.sub)

require_admin_any_role(cur) == cur

\* require_admin, given what get_current_user answered
require_admin(cur) ==
    IF cur.status # 200 THEN cur
    ELSE IF cur.user.role # ADMIN
    THEN [status |-> 403, detail |-> "Admin access required", user |-> cur.user]
    ELSE cur

\* tokens a client can present: those issued, a forged one, one without a
\* subject, and one (signed with the published key) for a name never stored
ForgedToken == [sub |-> "alice", exp |-> 1000000, sig |-> "forged"]
NoSubToken == [sub |-> None, exp |-> 1000000, sig |-> SECRET_KEY]
NoToken == [sub |-> None, exp |-> 0, sig |-> None]
StrangerToken == [sub |-> "mallory", exp |-> 1000000, sig |-> SECRET_KEY]
Issued == {g.access_token : g \in tokens}
Presentable == Issued \cup {ForgedToken, NoSubToken, StrangerToken}

(***************************************************************************)
(* Responses.  resp is what the step just taken sent back: the endpoint,   *)
(* the HTTP status, the detail of the HTTPException (message and the name  *)
(* or id it embeds), the caller as the dependency resolved it, what the    *)
(* request asked for, and the body of a successful response.  A step that  *)
(* sends nothing back (an await in the middle of a handler, the clock)     *)
(* leaves Quiet.                                                           *)
(***************************************************************************)
Response(op, status, msg, ref, who, arg, body) ==
    [op |-> op, status |-> status, detail |-> [msg |-> msg, ref |-> ref],
     who |-> who, arg |-> arg, body |-> body]

Quiet == Response("none", 0, "", "", NoUser, None, None)

Denied(op, auth, arg) == Response(op, auth.status, auth.detail, "", auth.user, arg, None)

\* a create_sale request in flight, and the slot of one that is not
IdleCall == [pc |-> "idle", customer_id |-> None, items |-> <<>>, customer_name |-> None,
             idx |-> 0, total |-> 0, read |-> 0, who |-> NoUser,
             reads |-> <<>>, start |-> EmptyColl, nsales |-> 0, alone |-> TRUE,
             again |-> 0, created_at |-> 0, token |-> NoToken]

IdleReg == [pc |-> "idle", username |-> None, email |-> None, password |-> None,
            role |-> None]

\* a request in flight of an endpoint behind the guard: the endpoint, the
\* token presented, whether the endpoint depends on require_admin, the
\* first store call of the handler and the pool its document's uuid comes
\* from; then the caller, what was asked, the document built for the next
\* store call, and what the dashboard has counted and read so far
NoStats == [vendors_count |-> 0, customers_count |-> 0, products_count |-> 0,
            sales |-> <<>>]

IdleReq == [pc |-> "idle", op |-> "none", token |-> NoToken, admin |-> FALSE,
            next |-> "idle", pool |-> {}, who |-> NoUser, arg |-> [id |-> None],
            doc |-> [id |-> None], stats |-> NoStats]

\* every create_sale in flight other than c has now overlapped another step
Overlapped(c) ==
    [k \in Calls |-> IF k # c /\ call[k].pc # "idle"
                     THEN [call[k] EXCEPT !.alone = FALSE, !.start = EmptyColl,
                                          !.nsales = 0, !.again = 0]
                     ELSE call[k]]

Init ==
    /\ clock = 0
    /\ users = <<>>
    /\ tokens = {}
    /\ vendors = EmptyColl
    /\ customers = EmptyColl
    /\ products = EmptyColl
    /\ minted = {}
    /\ sales = <<>>
    /\ company = <<>>
    /\ reg = [r \in Regs |-> IdleReg]
    /\ req = [r \in Reqs |-> IdleReq]
    /\ call = [k \in Calls |-> IdleCall]
    /\ resp = Quiet
    /\ audit = <<>>

(***************************************************************************)
(* The clock.                                                              *)
(***************************************************************************)
Tick ==
    /\ clock < MaxTicks * TickSeconds
    /\ clock' = clock + TickSeconds
    /\ resp' = Quiet
    /\ UNCHANGED <<users, tokens, vendors, customers, products, minted, sales,
                   company, reg, call, audit, req>>

(***************************************************************************)
(* POST /auth/register, in its two store calls.                            *)
(***************************************************************************)
existing_user_both(u, e) ==
    \E i \in 1..Len(users) : users[i].username = u /\ users[i].email = e

\* db.users.find_one({"$or": [{"username": u}, {"email": e}]}) found a document
existing_user(u, e) ==
    \E i \in 1..Len(users) : users[i].username = u \/ users[i].email = e

InFlight == {r \in Regs : reg[r].pc # "idle"}

RegisterFind(r, u, e, p, role) ==
    /\ reg[r].pc = "idle"
    /\ IF existing_user(u, e)
       THEN /\ resp' = Response("register", 400, "Username or email already exists", "",
                                 NoUser, [username |-> u, email |-> e], None)
            /\ reg' = reg
       ELSE /\ Len(users) + Cardinality(InFlight) < MaxUsers
            /\ resp' = Quiet
            /\ reg' = [reg EXCEPT ![r] = [pc |-> "insert", username |-> u, email |-> e,
                                          password |-> p, role |-> role]]
    /\ call' = Overlapped(None)
    /\ UNCHANGED <<audit, clock, users, tokens, vendors, customers, products, minted, sales,
                   company, req>>

RegisterInsert(r, salt) ==
    /\ reg[r].pc = "insert"
    /\ LET doc == [id |-> Len(users) + 1, username |-> reg[r].username,
                   email |-> reg[r].email, role |-> reg[r].role,
                   password |-> hash_password(reg[r].password, salt)]
       IN /\ users' = Append(users, doc)
          /\ resp' = Response("register", 200, "", "", NoUser,
                               [username |-> doc.username, email |-> doc.email],
                               UserView(doc))
    /\ reg' = [reg EXCEPT ![r] = IdleReg]
    /\ call' = Overlapped(None)
    /\ UNCHANGED <<audit, clock, tokens, vendors, customers, products, minted, sales, company, req>>

(***************************************************************************)
(* POST /auth/login and GET /auth/me.                                      *)
(***************************************************************************)
login_ok(u, p) == ByUsername(u) # {} /\ verify_password(p, find_user(u).password)

Login(u, p) ==
    /\ IF login_ok(u, p)
       THEN LET user == UserView(find_user(u))
                grant == [access_token |-> create_access_token(user.username, clock),
                          user |-> user]
            IN /\ Cardinality(tokens \cup {grant}) <= MaxTokens
               /\ tokens' = tokens \cup {grant}
               /\ resp' = Response("login", 200, "", "", NoUser, [username |-> u], grant)
       ELSE /\ tokens' = tokens
            /\ resp' = Response("login", 401, "Invalid credentials", "", NoUser,
                                 [username |-> u], None)
    /\ call' = Overlapped(None)
    /\ UNCHANGED <<audit, clock, users, vendors, customers, products, minted, sales, company,
                   reg, req>>

(***************************************************************************)
(* Requests behind the guard.  get_current_user decodes the token against  *)
(* the clock when the request arrives and then awaits db.users.find_one;   *)
(* what follows the lookup (the role check of require_admin, the handler   *)
(* up to its first store call) runs when the lookup returns, and every     *)
(* store call of the handler is a later step.  The token is checked once,  *)
(* on arrival: the lookup and the handler answer whatever has happened to  *)
(* the clock or the store since.  A step is a store call with the code     *)
(* that follows it up to the next await.                                   *)
(***************************************************************************)
\* the uuids of pool that requests awaiting the guard's lookup will take
Reserved(pool) ==
    Cardinality({r \in Reqs : req[r].pc = "find_user" /\ req[r].pool = pool})

\* a request arrives at slot r: jwt.decode refuses it, or the guard awaits
\* the lookup of the caller; a token presented at the second of its expiry
\* is refused or admitted, by the release of PyJWT.  The request is kept with the first store call
\* of its handler, next, the document doc the handler builds from the
\* request, and the pool of that document's uuid (none: {})
Guard(r, op, token, admin, arg, next, doc, pool) ==
    /\ req[r].pc = "idle"
    /\ \E cred \in {credentials(token, rule) : rule \in JwtRules} :
       IF cred.status # 200
       THEN /\ resp' = Denied(op, cred, arg)
            /\ req' = req
       ELSE /\ pool # {} => Cardinality(pool \ minted) > Reserved(pool)
            /\ req' = [req EXCEPT ![r] =
                   [IdleReq EXCEPT !.pc = "find_user", !.op = op, !.token = token,
                                   !.admin = admin, !.next = next, !.pool = pool,
                                   !.arg = arg, !.doc = doc]]
            /\ resp' = Quiet
    /\ call' = Overlapped(None)
    /\ UNCHANGED <<audit, clock, users, tokens, vendors, customers, products, minted, sales,
                   company, reg>>

\* db.users.find_one of the guard, the role check of require_admin, and the
\* handler up to its first store call: GET /auth/me returns the caller, the
\* creating handlers build their document with its uuid
get_current_user_find(r) ==
    /\ req[r].pc = "find_user"
    /\ LET q == req[r]
           cur == current_user(q.token.sub)
           auth == IF q.admin THEN require_admin(cur) ELSE cur
       IN
       IF auth.status # 200
       THEN /\ resp' = Denied(q.op, auth, q.arg)
            /\ req' = [req EXCEPT ![r] = IdleReq]
            /\ minted' = minted
       ELSE IF q.next = "return"
       THEN /\ resp' = Response(q.op, 200, "", "", auth.user, q.arg, auth.user)
            /\ req' = [req EXCEPT ![r] = IdleReq]
            /\ minted' = minted
       ELSE /\ q.pool # {} => q.pool \ minted # {}
            /\ req' = [req EXCEPT ![r] =
                   [q EXCEPT !.pc = q.next, !.who = auth.user,
                             !.doc = IF q.pool = {} THEN q.doc
                                     ELSE [q.doc EXCEPT !.id = uuid4(q.pool)]]]
            /\ minted' = IF q.pool = {} THEN minted ELSE minted \cup {uuid4(q.pool)}
            /\ resp' = Quiet
    /\ call' = Overlapped(None)
    /\ UNCHANGED <<audit, clock, users, tokens, vendors, customers, products, sales, company,
                   reg>>

\* GET /auth/me; at is the clock as jwt.decode read it
get_current_user_info(r, token) ==
    Guard(r, "me", token, FALSE, [token |-> token, at |-> clock], "return", [id |-> None], {})

\* a store call that reads, after which the handler awaits the call pc
Await(r, pc, doc, stats, ids) ==
    /\ req' = [req EXCEPT ![r] = [req[r] EXCEPT !.pc = pc, !.doc = doc, !.stats = stats]]
    /\ minted' = minted \cup ids
    /\ resp' = Quiet
    /\ call' = Overlapped(None)
    /\ UNCHANGED <<audit, clock, users, tokens, vendors, customers, products, sales, company,
                   reg>>

\* the last store call of a request, and its answer
Answer(r, op, status, msg, arg, body) ==
    /\ resp' = Response(op, status, msg, "", req[r].who, arg, body)
    /\ req' = [req EXCEPT ![r] = IdleReq]
    /\ call' = Overlapped(None)
    /\ UNCHANGED <<audit, clock, users, tokens, minted, reg>>

(***************************************************************************)
(* Vendors and customers: create, update (replace_one), delete.            *)
(***************************************************************************)
create_vendor(r, token, name) ==
    Guard(r, "create_vendor", token, FALSE, [id |-> None], "insert_vendor",
          [id |-> None, name |-> name], VendorIds)

\* db.vendors.insert_one(vendor.dict())
create_vendor_insert(r) ==
    /\ req[r].pc = "insert_vendor"
    /\ vendors' = insert_one(vendors, req[r].doc)
    /\ Answer(r, "create_vendor", 200, "", [id |-> req[r].doc.id], req[r].doc)
    /\ UNCHANGED <<customers, products, sales, company>>

update_vendor(r, token, vendor_id, name) ==
    Guard(r, "update_vendor", token, FALSE, [id |-> vendor_id], "replace_vendor",
          [id |-> vendor_id, name |-> name], {})

\* db.vendors.replace_one({"id": vendor_id}, vendor.dict())
update_vendor_replace(r) ==
    /\ req[r].pc = "replace_vendor"
    /\ IF ~matched(vendors, req[r].doc.id)
       THEN /\ vendors' = vendors
            /\ Answer(r, "update_vendor", 404, "Vendor not found", req[r].arg, None)
       ELSE /\ vendors' = insert_one(vendors, req[r].doc)
            /\ Answer(r, "update_vendor", 200, "", req[r].arg, req[r].doc)
    /\ UNCHANGED <<customers, products, sales, company>>

delete_vendor(r, token, vendor_id) ==
    Guard(r, "delete_vendor", token, TRUE, [id |-> vendor_id], "delete_vendor",
          [id |-> vendor_id], {})

\* db.vendors.delete_one({"id": vendor_id})
delete_vendor_delete(r) ==
    /\ req[r].pc = "delete_vendor"
    /\ IF ~matched(vendors, req[r].doc.id)
       THEN /\ vendors' = vendors
            /\ Answer(r, "delete_vendor", 404, "Vendor not found", req[r].arg, None)
       ELSE /\ vendors' = delete_one(vendors, req[r].doc.id)
            /\ Answer(r, "delete_vendor", 200, "", req[r].arg,
                   [message |-> "Vendor deleted successfully"])
    /\ UNCHANGED <<customers, products, sales, company>>

create_customer(r, token, name) ==
    Guard(r, "create_customer", token, FALSE, [id |-> None], "insert_customer",
          [id |-> None, name |-> name], CustomerIds)

\* db.customers.insert_one(customer.dict())
create_customer_insert(r) ==
    /\ req[r].pc = "insert_customer"
    /\ customers' = insert_one(customers, req[r].doc)
    /\ Answer(r, "create_customer", 200, "", [id |-> req[r].doc.id], req[r].doc)
    /\ UNCHANGED <<vendors, products, sales, company>>

update_customer(r, token, customer_id, name) ==
    Guard(r, "update_customer", token, FALSE, [id |-> customer_id],
          "replace_customer", [id |-> customer_id, name |-> name], {})

\* db.customers.replace_one({"id": customer_id}, customer.dict())
update_customer_replace(r) ==
    /\ req[r].pc = "replace_customer"
    /\ IF ~matched(customers, req[r].doc.id)
       THEN /\ customers' = customers
            /\ Answer(r, "update_customer", 404, "Customer not found", req[r].arg, None)
       ELSE /\ customers' = insert_one(customers, req[r].doc)
            /\ Answer(r, "update_customer", 200, "", req[r].arg, req[r].doc)
    /\ UNCHANGED <<vendors, products, sales, company>>

delete_customer(r, token, customer_id) ==
    Guard(r, "delete_customer", token, TRUE, [id |-> customer_id],
          "delete_customer", [id |-> customer_id], {})

\* db.customers.delete_one({"id": customer_id})
delete_customer_delete(r) ==
    /\ req[r].pc = "delete_customer"
    /\ IF ~matched(customers, req[r].doc.id)
       THEN /\ customers' = customers
            /\ Answer(r, "delete_customer", 404, "Customer not found", req[r].arg, None)
       ELSE /\ customers' = delete_one(customers, req[r].doc.id)
            /\ Answer(r, "delete_customer", 200, "", req[r].arg,
                   [message |-> "Customer deleted successfully"])
    /\ UNCHANGED <<vendors, products, sales, company>>

(***************************************************************************)
(* Products.  ProductCreate takes any int as quantity.  Create and update  *)
(* look the vendor up, then write.                                         *)
(***************************************************************************)
Product(id, name, vendor_id, quantity, purchase_price, selling_price) ==
    [id |-> id, name |-> name, vendor_id |-> vendor_id, quantity |-> quantity,
     purchase_price |-> purchase_price, selling_price |-> selling_price]

create_product(r, token, name, vendor_id, quantity, purchase_price, selling_price) ==
    Guard(r, "create_product", token, FALSE, [id |-> None], "find_vendor",
          Product(None, name, vendor_id, quantity, purchase_price, selling_price), {})

\* db.vendors.find_one({"id": vendor_id}); the product is built, with its
\* uuid, before insert_one is awaited
create_product_find(r) ==
    /\ req[r].pc = "find_vendor"
    /\ IF req[r].doc.vendor_id \notin DOMAIN vendors
       THEN /\ Answer(r, "create_product", 400, "Vendor not found", req[r].arg, None)
            /\ UNCHANGED <<vendors, customers, products, sales, company>>
       ELSE /\ ProductIds \ minted # {}
            /\ Await(r, "insert_product", [req[r].doc EXCEPT !.id = uuid4(ProductIds)],
                     req[r].stats, {uuid4(ProductIds)})

\* db.products.insert_one(product.dict())
create_product_insert(r) ==
    /\ req[r].pc = "insert_product"
    /\ products' = insert_one(products, req[r].doc)
    /\ Answer(r, "create_product", 200, "", [id |-> req[r].doc.id], req[r].doc)
    /\ UNCHANGED <<vendors, customers, sales, company>>

update_product(r, token, product_id, name, vendor_id, quantity, purchase_price, selling_price) ==
    Guard(r, "update_product", token, FALSE,
          [id |-> product_id, vendor_id |-> vendor_id], "find_vendor_of_update",
          Product(product_id, name, vendor_id, quantity, purchase_price, selling_price), {})

\* db.vendors.find_one({"id": vendor_id})
update_product_find(r) ==
    /\ req[r].pc = "find_vendor_of_update"
    /\ IF req[r].doc.vendor_id \notin DOMAIN vendors
       THEN /\ Answer(r, "update_product", 400, "Vendor not found", req[r].arg, None)
            /\ UNCHANGED <<vendors, customers, products, sales, company>>
       ELSE Await(r, "replace_product", req[r].doc, req[r].stats, {})

\* db.products.replace_one({"id": product_id}, product.dict())
update_product_replace(r) ==
    /\ req[r].pc = "replace_product"
    /\ IF ~matched(products, req[r].doc.id)
       THEN /\ products' = products
            /\ Answer(r, "update_product", 404, "Product not found", req[r].arg, None)
       ELSE /\ products' = insert_one(products, req[r].doc)
            /\ Answer(r, "update_product", 200, "", req[r].arg, req[r].doc)
    /\ UNCHANGED <<vendors, customers, sales, company>>

delete_product(r, token, product_id) ==
    Guard(r, "delete_product", token, TRUE, [id |-> product_id], "delete_product",
          [id |-> product_id], {})

\* db.products.delete_one({"id": product_id})
delete_product_delete(r) ==
    /\ req[r].pc = "delete_product"
    /\ IF ~matched(products, req[r].doc.id)
       THEN /\ products' = products
            /\ Answer(r, "delete_product", 404, "Product not found", req[r].arg, None)
       ELSE /\ products' = delete_one(products, req[r].doc.id)
            /\ Answer(r, "delete_product", 200, "", req[r].arg,
                   [message |-> "Product deleted successfully"])
    /\ UNCHANGED <<vendors, customers, sales, company>>

(***************************************************************************)
(* The company profile.  Both endpoints look for a company document and    *)
(* then write one; nothing keeps db.company to a single document, and      *)
(* find_one({}) returns the first.  GET /company stores the default        *)
(* profile when it found none.                                             *)
(***************************************************************************)
\* db.company.replace_one({"id": doc.id}, doc)
replace_company(doc) ==
    [i \in 1..Len(company) |-> IF company[i].id = doc.id THEN doc ELSE company[i]]

get_company_details(r, token) ==
    Guard(r, "get_company", token, FALSE, [id |-> None], "find_company",
          [id |-> None], {})

\* db.company.find_one({})
get_company_details_find(r) ==
    /\ req[r].pc = "find_company"
    /\ IF company # <<>>
       THEN /\ Answer(r, "get_company", 200, "", req[r].arg, Head(company))
            /\ UNCHANGED <<vendors, customers, products, sales, company>>
       ELSE /\ CompanyIds \ minted # {}
            /\ Await(r, "insert_default", [id |-> uuid4(CompanyIds), name |-> "ABC Pvt Ltd"],
                     req[r].stats, {uuid4(CompanyIds)})

\* db.company.insert_one(default_company.dict())
get_company_details_insert(r) ==
    /\ req[r].pc = "insert_default"
    /\ company' = Append(company, req[r].doc)
    /\ Answer(r, "get_company", 200, "", req[r].arg, req[r].doc)
    /\ UNCHANGED <<vendors, customers, products, sales>>

update_company_details(r, token, name) ==
    Guard(r, "update_company", token, TRUE, [id |-> None], "find_existing",
          [id |-> None, name |-> name], {})

\* db.company.find_one({})
update_company_details_find(r) ==
    /\ req[r].pc = "find_existing"
    /\ IF company # <<>>
       THEN Await(r, "replace_company", [req[r].doc EXCEPT !.id = Head(company).id],
                  req[r].stats, {})
       ELSE /\ CompanyIds \ minted # {}
            /\ Await(r, "insert_company", [req[r].doc EXCEPT !.id = uuid4(CompanyIds)],
                     req[r].stats, {uuid4(CompanyIds)})

\* db.company.replace_one or db.company.insert_one, as find_one answered
update_company_details_write(r) ==
    /\ req[r].pc \in {"replace_company", "insert_company"}
    /\ company' = IF req[r].pc = "replace_company" THEN replace_company(req[r].doc)
                  ELSE Append(company, req[r].doc)
    /\ Answer(r, "update_company", 200, "", req[r].arg, req[r].doc)
    /\ UNCHANGED <<vendors, customers, products, sales>>

(***************************************************************************)
(* The listings and the reports.  They write nothing.  to_list returns the *)
(* documents in insertion order; here a listing of vendors, customers or   *)
(* products is the collection itself.  The sales are listed by created_at, *)
(* latest first, and the order of two sales of one created_at is left to   *)
(* the store.  The dashboard makes five store calls, and the store may     *)
(* change between any two of them.                                         *)
(***************************************************************************)
Listing(r, op, token) ==
    Guard(r, op, token, FALSE, [id |-> None], op, [id |-> None], {})

\* find().to_list(1000) and the answer
Listed(r, op, body) ==
    /\ req[r].pc = op
    /\ Answer(r, op, 200, "", req[r].arg, body)
    /\ UNCHANGED <<vendors, customers, products, sales, company>>

get_vendors(r, token) == Listing(r, "get_vendors", token)

get_vendors_find(r) == Listed(r, "get_vendors", vendors)

get_customers(r, token) == Listing(r, "get_customers", token)

get_customers_find(r) == Listed(r, "get_customers", customers)

get_products(r, token) == Listing(r, "get_products", token)

get_products_find(r) == Listed(r, "get_products", products)

\* sort("created_at", -1): the orders of q with created_at never rising
sort_created_at_desc(q) ==
    LET n == Len(q)
        orders == {f \in [1..n -> 1..n] :
                      /\ \A i, j \in 1..n : i # j => f[i] # f[j]
                      /\ \A i, j \in 1..n :
                            i < j => q[f[i]].created_at >= q[f[j]].created_at}
    IN {[i \in 1..n |-> q[f[i]]] : f \in orders}

get_sales(r, token) == Listing(r, "get_sales", token)

\* db.sales.find().sort("created_at", -1).to_list(1000)
get_sales_find(r) == \E body \in sort_created_at_desc(sales) : Listed(r, "get_sales", body)

\* stock_value = product["quantity"] * product["purchase_price"]
stock_value(product) == product.quantity * product.purchase_price

RECURSIVE total_stock_value(_)
total_stock_value(ids) ==
    IF ids = {} THEN 0
    ELSE LET id == CHOOSE i \in ids : TRUE IN
         stock_value(products[id]) + total_stock_value(ids \ {id})

RECURSIVE total_sales(_)
total_sales(q) == IF q = <<>> THEN 0 ELSE Head(q).total_amount + total_sales(Tail(q))

stock_data ==
    [id \in DOMAIN products |->
        [product_id |-> id, product_name |-> products[id].name,
         quantity |-> products[id].quantity,
         purchase_price |-> products[id].purchase_price,
         selling_price |-> products[id].selling_price,
         stock_value |-> stock_value(products[id])]]

get_stock(r, token) == Listing(r, "get_stock", token)

\* db.products.find().to_list(1000) and the sums
get_stock_find(r) ==
    Listed(r, "get_stock",
           [products |-> stock_data,
            total_stock_value |-> total_stock_value(DOMAIN products)])

\* created_at.strftime("%Y-%m"): the year and the month of the day that
\* holds second t of the epoch, in the proleptic Gregorian calendar
month_key(t) ==
    LET z == (t \div 86400) + 719468
        era == z \div 146097
        doe == z - era * 146097
        yoe == (doe - doe \div 1460 + doe \div 36524 - doe \div 146096) \div 365
        doy == doe - (365 * yoe + yoe \div 4 - yoe \div 100)
        mp == (5 * doy + 2) \div 153
        month == IF mp < 10 THEN mp + 3 ELSE mp - 9
        year == yoe + era * 400 + (IF month <= 2 THEN 1 ELSE 0)
    IN <<year, month>>

\* monthly_sales[month_key] = monthly_sales.get(month_key, 0) + total_amount
monthly_sales(q) ==
    LET in_month(k) == SelectSeq(q, LAMBDA sale : month_key(sale.created_at) = k) IN
    [k \in {month_key(q[i].created_at) : i \in 1..Len(q)} |-> total_sales(in_month(k))]

get_dashboard_stats(r, token) ==
    Guard(r, "get_dashboard_stats", token, FALSE, [id |-> None],
          "count_vendors", [id |-> None], {})

\* a store call of the dashboard before its last
DashboardStep(r, pc, next, stats) ==
    /\ req[r].pc = pc
    /\ Await(r, next, req[r].doc, stats, {})

\* db.vendors.count_documents({})
get_dashboard_stats_vendors(r) ==
    DashboardStep(r, "count_vendors", "count_customers",
                  [req[r].stats EXCEPT !.vendors_count = Cardinality(DOMAIN vendors)])

\* db.customers.count_documents({})
get_dashboard_stats_customers(r) ==
    DashboardStep(r, "count_customers", "count_products",
                  [req[r].stats EXCEPT !.customers_count = Cardinality(DOMAIN customers)])

\* db.products.count_documents({})
get_dashboard_stats_products(r) ==
    DashboardStep(r, "count_products", "find_sales",
                  [req[r].stats EXCEPT !.products_count = Cardinality(DOMAIN products)])

\* db.sales.find().to_list(1000)
get_dashboard_stats_sales(r) ==
    DashboardStep(r, "find_sales", "find_products", [req[r].stats EXCEPT !.sales = sales])

\* db.products.find().to_list(1000), the sums and the answer
get_dashboard_stats_stock(r) ==
    /\ req[r].pc = "find_products"
    /\ Answer(r, "get_dashboard_stats", 200, "", req[r].arg,
              [vendors_count |-> req[r].stats.vendors_count,
               customers_count |-> req[r].stats.customers_count,
               products_count |-> req[r].stats.products_count,
               total_sales |-> total_sales(req[r].stats.sales),
               total_purchase_value |-> total_stock_value(DOMAIN products),
               total_stock_value |-> total_stock_value(DOMAIN products),
               monthly_sales |-> monthly_sales(req[r].stats.sales)])
    /\ UNCHANGED <<vendors, customers, products, sales, company>>

(***************************************************************************)
(* A request without credentials.  Every endpoint but register and login   *)
(* depends on security = HTTPBearer(), which answers a request that has no *)
(* Authorization header before get_current_user or the handler runs.  The  *)
(* status of that answer is the library's: 403 in the FastAPI releases up  *)
(* to 0.121, 401 in the later ones.  The repository pins no release, so    *)
(* the model allows both.                                                  *)
(***************************************************************************)
Guarded ==
    {"me", "create_vendor", "get_vendors", "update_vendor", "delete_vendor",
     "create_customer", "get_customers", "update_customer", "delete_customer",
     "create_product", "get_products", "update_product", "delete_product",
     "create_sale", "get_sales", "get_stock", "get_dashboard_stats",
     "get_company", "update_company"}

NotAuthenticatedStatuses == {401, 403}

NotAuthenticated(op, status) ==
    /\ resp' = Response(op, status, "Not authenticated", "", NoUser,
                        [credentials |-> None], None)
    /\ call' = Overlapped(None)
    /\ UNCHANGED <<audit, clock, users, tokens, vendors, customers, products, minted, sales,
                   company, reg, req>>

(***************************************************************************)
(* POST /sales, one store call per step.  The guard decodes the token and  *)
(* then looks the caller up; the next step looks the customer up.  Then,   *)
(* item by item, a step reads the product and checks it, and a later step  *)
(* writes the quantity computed from what was read; the last step inserts  *)
(* the sale.                                                               *)
(*                                                                         *)
(* Five fields of a request in flight are history, kept for stating        *)
(* properties: reads lists the quantities read so far, start is            *)
(* db.products and nsales the number of sales as the call found them       *)
(* (while no other step has run), alone says that no other step has run    *)
(* since the call began, and again is n when the call repeats the request  *)
(* that has just failed, alone, for want of stock at its item n.           *)
(***************************************************************************)
SaleItem(product_id, quantity, total_amount) ==
    [product_id |-> product_id, quantity |-> quantity, total_amount |-> total_amount]

SaleItems(P, Q, T) == {SaleItem(p, q, t) : p \in P, q \in Q, t \in T}

RECURSIVE SeqsUpTo(_, _)
SeqsUpTo(S, n) ==
    IF n = 0 THEN {<<>>}
    ELSE LET shorter == SeqsUpTo(S, n - 1) IN
         shorter \cup {Append(q, x) : q \in {r \in shorter : Len(r) = n - 1}, x \in S}

\* the requests of SpecSale: a first item of 1 or 2 units of either product,
\* followed by single units of either product, at one line total
SaleRequests ==
    {<<>>} \cup
    {<<i>> \o r : i \in SaleItems(ProductIds, SaleQuantities, {80}),
                 r \in SeqsUpTo(SaleItems(ProductIds, {1}, {80}), MaxItems - 1)}

\* the requests of SpecOrder: one unit of p1 at either line total
OrderRequests == SeqsUpTo(SaleItems({"p1"}, {1}, LineTotals), MaxItems)

\* the requests of SpecRace and SpecCrud: a single item of p1
SingleRequests == {<<i>> : i \in SaleItems({"p1"}, SignedQuantities, {80})}

SaleArg(c) ==
    [customer_id |-> c.customer_id, items |-> c.items, idx |-> c.idx,
     customer_name |-> c.customer_name, alone |-> c.alone, start |-> c.start,
     nsales |-> c.nsales, again |-> c.again]

OutOfStock == "Insufficient stock for product"

\* the request repeats the one that has just failed, alone, for want of stock
Repeats(customer_id, items) ==
    /\ resp.op = "create_sale"
    /\ resp.status = 400
    /\ resp.detail.msg = OutOfStock
    /\ resp.arg.alone
    /\ resp.arg.customer_id = customer_id
    /\ resp.arg.items = items

NoCustomer == [id |-> None, name |-> None]

find_customer_any(customer_id) ==
    IF customer_id \in DOMAIN customers THEN customers[customer_id]
    ELSE IF customers = EmptyColl THEN NoCustomer
    ELSE customers[CHOOSE id \in DOMAIN customers : TRUE]

\* db.customers.find_one({"id": customer_id}): the document, or none
find_customer(customer_id) ==
    IF customer_id \in DOMAIN customers THEN customers[customer_id] ELSE NoCustomer

\* what a request that did not get to its items had asked for
Unstarted(customer_id, items) ==
    SaleArg([IdleCall EXCEPT !.customer_id = customer_id, !.items = items])

SaleBegin(k, token, customer_id, items) ==
    /\ call[k].pc = "idle"
    /\ \E cred \in {credentials(token, rule) : rule \in JwtRules} :
       IF cred.status # 200
       THEN /\ resp' = Denied("create_sale", cred, Unstarted(customer_id, items))
            /\ call' = Overlapped(None)
       ELSE /\ Len(sales) < MaxSales
            /\ resp' = Quiet
            /\ call' = [Overlapped(k) EXCEPT ![k] =
                   [IdleCall EXCEPT !.pc = "find_user", !.token = token,
                                    !.customer_id = customer_id, !.items = items,
                                    !.start = products, !.nsales = Len(sales),
                                    !.again = IF Repeats(customer_id, items)
                                              THEN resp.arg.idx ELSE 0]]
    /\ UNCHANGED <<audit, clock, users, tokens, vendors, customers, products, minted, sales,
                   company, reg, req>>

\* db.users.find_one of the guard
SaleUser(k) ==
    /\ call[k].pc = "find_user"
    /\ LET c == call[k]
           cur == current_user(c.token.sub)
       IN
       IF cur.status # 200
       THEN /\ resp' = Denied("create_sale", cur, SaleArg(c))
            /\ call' = [Overlapped(k) EXCEPT ![k] = IdleCall]
       ELSE /\ resp' = Quiet
            /\ call' = [Overlapped(k) EXCEPT ![k] = [c EXCEPT !.pc = "customer",
                                                            !.who = cur.user]]
    /\ UNCHANGED <<audit, clock, users, tokens, vendors, customers, products, minted, sales,
                   company, reg, req>>

\* db.customers.find_one({"id": sale_data.customer_id}); a sale without
\* items is built, and its created_at taken, before insert_one is awaited
SaleCustomer(k) ==
    /\ call[k].pc = "customer"
    /\ LET c == call[k]
           customer == find_customer(c.customer_id)
       IN
       IF customer = NoCustomer
       THEN /\ resp' = Response("create_sale", 400, "Customer not found", "", c.who,
                                SaleArg(c), None)
            /\ call' = [Overlapped(k) EXCEPT ![k] = IdleCall]
       ELSE /\ resp' = Quiet
            /\ call' = [Overlapped(k) EXCEPT ![k] =
                   [c EXCEPT !.pc = IF c.items = <<>> THEN "insert" ELSE "read",
                             !.customer_name = customer.name,
                             !.idx = 1,
                             !.created_at = IF c.items = <<>> THEN clock ELSE 0]]
    /\ UNCHANGED <<audit, clock, users, tokens, vendors, customers, products, minted, sales,
                   company, reg, req>>

insufficient_off_by_one(stored, requested) == stored + 1 < requested

insufficient_never(stored, requested) == FALSE

\* product["quantity"] < item.quantity
insufficient(stored, requested) == stored < requested

NoProduct == Product(None, None, None, 0, 0, 0)

find_product_phantom(product_id) ==
    IF product_id \in DOMAIN products THEN products[product_id]
    ELSE Product(product_id, product_id, None, 0, 0, 0)

\* db.products.find_one({"id": product_id}): the document, or none
find_product(product_id) ==
    IF product_id \in DOMAIN products THEN products[product_id] ELSE NoProduct

SaleRead(k) ==
    /\ call[k].pc = "read"
    /\ LET c == call[k]
           item == c.items[c.idx]
           product == find_product(item.product_id)
       IN IF product = NoProduct
          THEN /\ resp' = Response("create_sale", 400, "Product not found", item.product_id,
                                   c.who, SaleArg(c), None)
               /\ call' = [Overlapped(k) EXCEPT ![k] = IdleCall]
          ELSE IF insufficient(product.quantity, item.quantity)
          THEN /\ resp' = Response("create_sale", 400, OutOfStock,
                                   product.name, c.who, SaleArg(c), None)
               /\ call' = [Overlapped(k) EXCEPT ![k] = IdleCall]
          ELSE /\ product.quantity - item.quantity <= MaxStock
               /\ resp' = Quiet
               /\ call' = [Overlapped(k) EXCEPT ![k] =
                      [c EXCEPT !.pc = "write",
                                !.read = product.quantity,
                                !.reads = Append(c.reads, product.quantity)]]
    /\ UNCHANGED <<audit, clock, users, tokens, vendors, customers, products, minted, sales,
                   company, reg, req>>

add_total_recomputed(total, item) == total + item.quantity * 75

\* total_amount += item.total_amount
add_total(total, item) == total + item.total_amount

new_quantity_in_place(read, stored, requested) == stored - requested

new_quantity_swapped(read, stored, requested) == requested - read

\* new_quantity = product["quantity"] - item.quantity, from the product as read
new_quantity(read, stored, requested) == read - requested

set_quantity_deferred(id, q) == products

\* db.products.update_one({"id": id}, {"$set": {"quantity": q}})
set_quantity(id, q) ==
    IF id \in DOMAIN products THEN [products EXCEPT ![id].quantity = q] ELSE products

SaleWrite(k) ==
    /\ call[k].pc = "write"
    /\ LET c == call[k]
           item == c.items[c.idx]
           stored == IF item.product_id \in DOMAIN products
                     THEN products[item.product_id].quantity ELSE 0
       IN /\ products' = set_quantity(item.product_id,
                                      new_quantity(c.read, stored, item.quantity))
          /\ call' = [Overlapped(k) EXCEPT ![k] =
                 [c EXCEPT !.pc = IF c.idx = Len(c.items) THEN "insert" ELSE "read",
                           !.idx = c.idx + 1,
                           !.total = add_total(c.total, item),
                           !.created_at = IF c.idx = Len(c.items) THEN clock ELSE 0]]
    /\ resp' = Quiet
    /\ UNCHANGED <<audit, clock, users, tokens, vendors, customers, minted, sales, company, reg, req>>

\* the Sale is built, and its created_at taken, when the loop over the items
\* has ended and before insert_one is awaited
Sale(id, c) ==
    [id |-> id, customer_id |-> c.customer_id, customer_name |-> c.customer_name,
     items |-> c.items, total_amount |-> c.total, created_at |-> c.created_at]

insert_sale_latest(sale) == <<sale>>

\* db.sales.insert_one(sale.dict())
insert_sale(sale) == Append(sales, sale)

SaleInsert(k) ==
    /\ call[k].pc = "insert"
    /\ LET sale == Sale(Len(sales) + 1, call[k]) IN
       /\ sales' = insert_sale(sale)
       /\ resp' = Response("create_sale", 200, "", "", call[k].who, SaleArg(call[k]), sale)
    /\ audit' = Append(audit, [reads |-> call[k].reads, alone |-> call[k].alone])
    /\ call' = [Overlapped(k) EXCEPT ![k] = IdleCall]
    /\ UNCHANGED <<clock, users, tokens, vendors, customers, products, minted, company,
                   reg, req>>

(***************************************************************************)
(* Specifications.  Init is the empty store.  Each specification runs the  *)
(* endpoints its claims are about, most of them from a store the program   *)
(* reaches from Init: administrator alice and clerk bob registered and     *)
(* logged in, a vendor, a customer and products created.                   *)
(***************************************************************************)
Alice == [id |-> 1, username |-> "alice", email |-> "a@x", role |-> ADMIN,
          password |-> hash_password("pw1", "salt")]
Bob == [id |-> 2, username |-> "bob", email |-> "b@x", role |-> USER,
        password |-> hash_password("pw2", "salt")]

Populated ==
    /\ clock = 0
    /\ users = <<Alice, Bob>>
    /\ tokens = {[access_token |-> create_access_token("alice", 0), user |-> UserView(Alice)],
                 [access_token |-> create_access_token("bob", 0), user |-> UserView(Bob)]}
    /\ vendors = insert_one(EmptyColl, [id |-> "v1", name |-> "acme"])
    /\ customers = insert_one(EmptyColl, [id |-> "c1", name |-> "carol"])
    /\ sales = <<>>
    /\ company = <<>>
    /\ reg = [r \in Regs |-> IdleReg]
    /\ req = [r \in Reqs |-> IdleReq]
    /\ call = [k \in Calls |-> IdleCall]
    /\ resp = Quiet
    /\ audit = <<>>

Unstocked == Populated /\ products = EmptyColl /\ minted = {"v1", "c1"}

\* products p1 and, in some of the states, p2 have been created
Stocked ==
    /\ Populated
    /\ \E q1 \in 0..MaxStock :
          \/ /\ products = insert_one(EmptyColl, Product("p1", "nut", "v1", q1, 50, 75))
             /\ minted = {"v1", "c1", "p1"}
          \/ \E q2 \in 0..MaxStock :
                /\ products = insert_one(insert_one(EmptyColl,
                                  Product("p1", "nut", "v1", q1, 50, 75)),
                                  Product("p2", "bolt", "v1", q2, 50, 75))
                /\ minted = {"v1", "c1", "p1", "p2"}

BobToken == create_access_token("bob", 0)
AliceToken == create_access_token("alice", 0)

\* p1 has been created with the largest quantity
Shelved ==
    /\ Populated
    /\ products = insert_one(EmptyColl, Product("p1", "nut", "v1", MaxStock, 50, 75))
    /\ minted = {"v1", "c1", "p1"}

\* one create_sale at a time, on a stocked store
NextSale ==
    \/ \E items \in SaleRequests : SaleBegin("k1", BobToken, "c1", items)
    \/ SaleBegin("k1", ForgedToken, "c1", <<>>)
    \/ SaleUser("k1")
    \/ SaleCustomer("k1")
    \/ SaleRead("k1")
    \/ SaleWrite("k1")
    \/ SaleInsert("k1")

SpecSale == Stocked /\ [][NextSale]_vars

\* one create_sale at a time, while the customer is renamed
NextOrder ==
    \/ update_customer("q1", BobToken, "c1", "dave")
    \/ update_customer_replace("q1")
    \/ \E items \in OrderRequests : SaleBegin("k1", BobToken, "c1", items)
    \/ SaleUser("k1")
    \/ SaleCustomer("k1")
    \/ SaleRead("k1")
    \/ SaleWrite("k1")
    \/ SaleInsert("k1")
    \/ get_current_user_find("q1")

SpecOrder == Stocked /\ [][NextOrder]_vars

\* two create_sale calls at a time on product p1
NextRace ==
    \/ \E k \in Calls, items \in SingleRequests : SaleBegin(k, BobToken, "c1", items)
    \/ \E k \in Calls : SaleUser(k)
    \/ \E k \in Calls : SaleCustomer(k)
    \/ \E k \in Calls : SaleRead(k)
    \/ \E k \in Calls : SaleWrite(k)
    \/ \E k \in Calls : SaleInsert(k)

SpecRace == Stocked /\ [][NextRace]_vars

\* products created, updated, deleted and sold
NextCrud ==
    \/ \E n \in ProductNames, q \in {-1, MaxStock} :
          create_product("q1", BobToken, n, "v1", q, 50, 75)
    \/ create_product_find("q1")
    \/ create_product_insert("q1")
    \/ \E q \in {-1, 0, MaxStock} :
          update_product("q1", BobToken, "p1", "nut", "v1", q, 50, 75)
    \/ update_product_find("q1")
    \/ update_product_replace("q1")
    \/ \E t \in {AliceToken, BobToken}, id \in ProductIds : delete_product("q1", t, id)
    \/ delete_product_delete("q1")
    \/ \E items \in SingleRequests : SaleBegin("k1", BobToken, "c1", items)
    \/ SaleUser("k1")
    \/ SaleCustomer("k1")
    \/ SaleRead("k1")
    \/ SaleWrite("k1")
    \/ SaleInsert("k1")
    \/ get_current_user_find("q1")

SpecCrud == Unstocked /\ [][NextCrud]_vars

\* the gated endpoints, called by the administrator, the clerk and strangers
GateTokens == {AliceToken, BobToken, ForgedToken, StrangerToken}

NextGate ==
    \/ \E t \in GateTokens, id \in VendorIds : delete_vendor("q1", t, id)
    \/ delete_vendor_delete("q1")
    \/ \E t \in GateTokens, id \in CustomerIds : delete_customer("q1", t, id)
    \/ delete_customer_delete("q1")
    \/ \E t \in GateTokens, id \in ProductIds : delete_product("q1", t, id)
    \/ delete_product_delete("q1")
    \/ \E r \in Reqs, t \in GateTokens, n \in CompanyNames : update_company_details(r, t, n)
    \/ \E r \in Reqs : update_company_details_find(r)
    \/ \E r \in Reqs : update_company_details_write(r)
    \/ \E t \in GateTokens : get_company_details("q2", t)
    \/ get_company_details_find("q2")
    \/ get_company_details_insert("q2")
    \/ \E r \in Reqs : get_current_user_find(r)

SpecGate == Shelved /\ [][NextGate]_vars

\* registrations, two at a time, on the empty store
NextRegister ==
    \/ \E r \in Regs, u \in Usernames, e \in Emails, p \in Passwords, role \in UserRole :
          RegisterFind(r, u, e, p, role)
    \/ \E r \in Regs, salt \in Salts : RegisterInsert(r, salt)
    \/ \E u \in Usernames, p \in Passwords : Login(u, p)

SpecRegister == Init /\ [][NextRegister]_vars

\* alice is registered; logins, the clock, token checks, a registration and
\* data changes
Registered ==
    /\ clock = 0
    /\ users = <<Alice>>
    /\ tokens = {}
    /\ vendors = EmptyColl
    /\ customers = EmptyColl
    /\ products = EmptyColl
    /\ minted = {}
    /\ sales = <<>>
    /\ company = <<>>
    /\ reg = [r \in Regs |-> IdleReg]
    /\ req = [r \in Reqs |-> IdleReq]
    /\ call = [k \in Calls |-> IdleCall]
    /\ resp = Quiet
    /\ audit = <<>>

NextToken ==
    \/ Tick
    \/ \E u \in Usernames, p \in Passwords : Login(u, p)
    \/ \E t \in Presentable : get_current_user_info("q2", t)
    \/ \E u \in Usernames, e \in Emails : RegisterFind("r1", u, e, "pw2", USER)
    \/ \E salt \in Salts : RegisterInsert("r1", salt)
    \/ \E t \in Presentable, n \in VendorNames : create_vendor("q1", t, n)
    \/ create_vendor_insert("q1")
    \/ \E t \in Presentable, id \in VendorIds : delete_vendor("q2", t, id)
    \/ delete_vendor_delete("q2")
    \/ \E r \in Reqs : get_current_user_find(r)

SpecToken == Registered /\ [][NextToken]_vars

\* the requests of SpecCustomer: single units of p1
CustomerRequests == SeqsUpTo(SaleItems({"p1"}, {1}, {80}), MaxItems)

\* one create_sale at a time, for a customer that is stored or not, while
\* customers are created and deleted
NextCustomer ==
    \/ \E c \in CustomerIds, items \in CustomerRequests : SaleBegin("k1", BobToken, c, items)
    \/ SaleUser("k1")
    \/ SaleCustomer("k1")
    \/ SaleRead("k1")
    \/ SaleWrite("k1")
    \/ SaleInsert("k1")
    \/ create_customer("q1", BobToken, "dave")
    \/ create_customer_insert("q1")
    \/ \E c \in CustomerIds : delete_customer("q1", AliceToken, c)
    \/ delete_customer_delete("q1")
    \/ get_current_user_find("q1")

\* updates and deletions of vendors, customers and products, stored or not,
\* by the administrator and the clerk
NextTarget ==
    \/ \E t \in {AliceToken, BobToken} : update_vendor("q1", t, "v1", "acme")
    \/ update_vendor_replace("q1")
    \/ \E t \in {AliceToken, BobToken} : delete_vendor("q1", t, "v1")
    \/ delete_vendor_delete("q1")
    \/ \E t \in {AliceToken, BobToken}, c \in CustomerIds : update_customer("q1", t, c, "dave")
    \/ update_customer_replace("q1")
    \/ \E t \in {AliceToken, BobToken}, c \in CustomerIds : delete_customer("q1", t, c)
    \/ delete_customer_delete("q1")
    \/ \E t \in {AliceToken, BobToken}, id \in ProductIds, q \in {0, MaxStock} :
          update_product("q2", t, id, "bolt", "v1", q, 50, 75)
    \/ update_product_find("q2")
    \/ update_product_replace("q2")
    \/ \E r \in Reqs, t \in {AliceToken, BobToken}, id \in ProductIds :
          delete_product(r, t, id)
    \/ \E r \in Reqs : delete_product_delete(r)
    \/ \E r \in Reqs : get_current_user_find(r)

SpecTarget == Stocked /\ [][NextTarget]_vars

\* the requests of SpecStock: a single item of p1, of no unit or more
StockRequests == {<<i>> : i \in SaleItems({"p1"}, {0, 1, MaxStock}, {80})}

\* two create_sale calls at a time on product p1, while products are
\* created and updated; no quantity supplied is negative
NextStock ==
    \/ \E k \in Calls, items \in StockRequests : SaleBegin(k, BobToken, "c1", items)
    \/ \E k \in Calls : SaleUser(k)
    \/ \E k \in Calls : SaleCustomer(k)
    \/ \E k \in Calls : SaleRead(k)
    \/ \E k \in Calls : SaleWrite(k)
    \/ \E k \in Calls : SaleInsert(k)
    \/ \E q \in {0, MaxStock} : create_product("q1", BobToken, "bolt", "v1", q, 50, 75)
    \/ create_product_find("q1")
    \/ create_product_insert("q1")
    \/ \E q \in {0, MaxStock} : update_product("q1", BobToken, "p1", "nut", "v1", q, 50, 75)
    \/ update_product_find("q1")
    \/ update_product_replace("q1")
    \/ get_current_user_find("q1")

SpecStock == Shelved /\ [][NextStock]_vars

SpecCustomer == Shelved /\ [][NextCustomer]_vars

\* alice and bob are registered and have logged in a second more than one
\* clock step ago, one clock step before the last: their tokens are valid,
\* and past their expiry under either release of PyJWT once the clock has
\* stepped; nothing else is stored: a customer has been created and deleted
\* again
LoginTime == (MaxTicks - 2) * TickSeconds - 1
LateAlice == create_access_token("alice", LoginTime)
LateBob == create_access_token("bob", LoginTime)

Staffed ==
    /\ clock = LoginTime + 1 + TickSeconds
    /\ users = <<Alice, Bob>>
    /\ tokens = {[access_token |-> LateAlice, user |-> UserView(Alice)],
                 [access_token |-> LateBob, user |-> UserView(Bob)]}
    /\ vendors = EmptyColl
    /\ customers = EmptyColl
    /\ products = EmptyColl
    /\ minted = {"c1"}
    /\ sales = <<>>
    /\ company = <<>>
    /\ reg = [r \in Regs |-> IdleReg]
    /\ req = [r \in Reqs |-> IdleReq]
    /\ call = [k \in Calls |-> IdleCall]
    /\ resp = Quiet
    /\ audit = <<>>

\* the requests of SpecLedger: one unit of p1
LedgerRequests == {<<i>> : i \in SaleItems({"p1"}, {1}, {80})}

\* p1 is stored with the largest quantity, and alice and bob have just
\* logged in, one clock step before the last
OpenTime == (MaxTicks - 1) * TickSeconds
FreshAlice == create_access_token("alice", OpenTime)
FreshBob == create_access_token("bob", OpenTime)

Dated ==
    /\ clock = OpenTime
    /\ users = <<Alice, Bob>>
    /\ tokens = {[access_token |-> FreshAlice, user |-> UserView(Alice)],
                 [access_token |-> FreshBob, user |-> UserView(Bob)]}
    /\ vendors = insert_one(EmptyColl, [id |-> "v1", name |-> "acme"])
    /\ customers = insert_one(EmptyColl, [id |-> "c1", name |-> "carol"])
    /\ products = insert_one(EmptyColl, Product("p1", "nut", "v1", MaxStock, 50, 75))
    /\ minted = {"v1", "c1", "p1"}
    /\ sales = <<>>
    /\ company = <<>>
    /\ reg = [r \in Regs |-> IdleReg]
    /\ req = [r \in Reqs |-> IdleReq]
    /\ call = [k \in Calls |-> IdleCall]
    /\ resp = Quiet
    /\ audit = <<>>

\* two create_sale calls at a time, while the clock advances, the customer
\* the sales refer to is renamed, their product is updated and deleted, and
\* the sales are listed
NextLedger ==
    \/ \E k \in Calls, items \in LedgerRequests : SaleBegin(k, FreshBob, "c1", items)
    \/ \E k \in Calls : SaleUser(k)
    \/ \E k \in Calls : SaleCustomer(k)
    \/ \E k \in Calls : SaleRead(k)
    \/ \E k \in Calls : SaleWrite(k)
    \/ \E k \in Calls : SaleInsert(k)
    \/ update_customer("q1", FreshBob, "c1", "dave")
    \/ update_customer_replace("q1")
    \/ update_product("q1", FreshBob, "p1", "washer", "v1", MaxStock, 50, 75)
    \/ update_product_find("q1")
    \/ update_product_replace("q1")
    \/ delete_product("q1", FreshAlice, "p1")
    \/ delete_product_delete("q1")
    \/ delete_customer("q1", FreshAlice, "c1")
    \/ delete_customer_delete("q1")
    \/ get_sales("q1", FreshBob)
    \/ get_sales_find("q1")
    \/ Tick
    \/ get_current_user_find("q1")

SpecLedger == Dated /\ [][NextLedger]_vars

\* the credentials of SpecAuth.  Both issued tokens expire as the clock
\* advances; the others are a forged token, one without a subject and one
\* for a name never stored.  GET /auth/me is called with each of them, the
\* other endpoints with the issued tokens they admit and one of the others.
\* A request may also come without credentials: to a listing, to a mutating
\* endpoint and to one that depends on require_admin.
AuthTokens == {LateAlice, LateBob, ForgedToken, NoSubToken, StrangerToken}
WriterTokens == {LateAlice, LateBob, StrangerToken}
EditorTokens == {LateBob, StrangerToken}
ReaderTokens == {LateBob, ForgedToken}
ClerkTokens == {LateAlice, LateBob, NoSubToken}
StepTokens == {LateAlice, ForgedToken}
AdminTokens == {LateAlice, LateBob}
Unauthenticated == {"get_vendors", "create_sale", "delete_product"}

\* every endpoint behind the guard
NextAuth ==
    \/ Tick
    \/ \E op \in Unauthenticated, status \in NotAuthenticatedStatuses :
          NotAuthenticated(op, status)
    \/ \E t \in AuthTokens : get_current_user_info("q1", t)
    \/ \E t \in WriterTokens : create_vendor("q1", t, "acme")
    \/ create_vendor_insert("q1")
    \/ \E t \in ReaderTokens : get_vendors("q1", t)
    \/ get_vendors_find("q1")
    \/ \E t \in EditorTokens : update_vendor("q1", t, "v1", "acme")
    \/ update_vendor_replace("q1")
    \/ \E t \in ClerkTokens : delete_vendor("q1", t, "v1")
    \/ delete_vendor_delete("q1")
    \/ \E t \in WriterTokens : create_customer("q1", t, "carol")
    \/ create_customer_insert("q1")
    \/ \E t \in ReaderTokens : get_customers("q1", t)
    \/ get_customers_find("q1")
    \/ \E t \in EditorTokens : update_customer("q1", t, "c2", "carol")
    \/ update_customer_replace("q1")
    \/ \E t \in ClerkTokens : delete_customer("q1", t, "c2")
    \/ delete_customer_delete("q1")
    \/ \E t \in StepTokens : create_product("q1", t, "nut", "v1", 1, 50, 75)
    \/ create_product_find("q1")
    \/ create_product_insert("q1")
    \/ \E t \in ReaderTokens : get_products("q1", t)
    \/ get_products_find("q1")
    \/ \E t \in StepTokens : update_product("q1", t, "p1", "nut", "v1", 1, 50, 75)
    \/ update_product_find("q1")
    \/ update_product_replace("q1")
    \/ \E t \in ClerkTokens : delete_product("q1", t, "p1")
    \/ delete_product_delete("q1")
    \/ \E t \in StepTokens : SaleBegin("k1", t, "c2", <<SaleItem("p1", 1, 80)>>)
    \/ SaleUser("k1")
    \/ SaleCustomer("k1")
    \/ SaleRead("k1")
    \/ SaleWrite("k1")
    \/ SaleInsert("k1")
    \/ \E t \in ReaderTokens : get_sales("q1", t)
    \/ get_sales_find("q1")
    \/ \E t \in ReaderTokens : get_stock("q1", t)
    \/ get_stock_find("q1")
    \/ \E t \in ReaderTokens : get_dashboard_stats("q1", t)
    \/ get_dashboard_stats_vendors("q1")
    \/ get_dashboard_stats_customers("q1")
    \/ get_dashboard_stats_products("q1")
    \/ get_dashboard_stats_sales("q1")
    \/ get_dashboard_stats_stock("q1")
    \/ \E t \in ReaderTokens : get_company_details("q1", t)
    \/ get_company_details_find("q1")
    \/ get_company_details_insert("q1")
    \/ \E t \in AdminTokens : update_company_details("q1", t, "newco")
    \/ update_company_details_find("q1")
    \/ update_company_details_write("q1")
    \/ get_current_user_find("q1")

SpecAuth == Staffed /\ [][NextAuth]_vars

(***************************************************************************)
(* Properties of the sale endpoints.                                       *)
(***************************************************************************)
RECURSIVE Requested(_, _)
\* the units of product p that the items ask for
Requested(items, p) ==
    IF items = <<>> THEN 0
    ELSE (IF Head(items).product_id = p THEN Head(items).quantity ELSE 0)
         + Requested(Tail(items), p)

RECURSIVE SumTotals(_)
\* the sum of the line totals the caller supplied
SumTotals(items) ==
    IF items = <<>> THEN 0 ELSE Head(items).total_amount + SumTotals(Tail(items))

RECURSIVE SumPriced(_)
\* the total recomputed from the stored selling price
SumPriced(items) ==
    IF items = <<>> THEN 0
    ELSE Head(items).quantity * products[Head(items).product_id].selling_price
         + SumPriced(Tail(items))

Asked(items) == {items[i].product_id : i \in 1..Len(items)}

\* the last step answered a create_sale that had got as far as its items
SaleAnswered == resp.op = "create_sale" /\ resp.arg.idx > 0
SaleStored == SaleAnswered /\ resp.status = 200
SaleRefused == SaleAnswered /\ resp.status = 400 /\ resp.detail.msg = OutOfStock

\* C1: every stored product has quantity >= 0, whatever operations have
\* been committed.  create_product and update_product store the quantity
\* they are given, so this fails.
C1_QuantityNonNegative == \A p \in DOMAIN products : products[p].quantity >= 0

\* C2: when a create_sale that ran alone has stored its sale, then for every
\* product among its items the units asked for, summed over all the items
\* naming it, are at most the quantity stored when the call started.
C2_NoOversellAlone ==
    (SaleStored /\ resp.arg.alone) =>
        \A p \in Asked(resp.arg.items) :
            /\ p \in DOMAIN resp.arg.start
            /\ Requested(resp.arg.items, p) <= resp.arg.start[p].quantity

\* a sale that ran alone, names one product twice and takes all of its stock
C2_Witness ==
    /\ SaleStored /\ resp.arg.alone
    /\ Len(resp.arg.items) = 2
    /\ resp.arg.items[1].product_id = resp.arg.items[2].product_id
    /\ Requested(resp.arg.items, resp.arg.items[1].product_id)
          = resp.arg.start[resp.arg.items[1].product_id].quantity

\* C3: the check and the write of a create_sale are separate steps: the
\* write stores (quantity read) - (quantity asked), whatever the product
\* holds by then, so two calls that read the same quantity both go through.
C3_WriteFromStaleRead ==
    [][\A k \in Calls :
          (call[k].pc = "write" /\ call'[k].pc # "write") =>
              LET item == call[k].items[call[k].idx] IN
              /\ call[k].read >= item.quantity
              /\ item.product_id \in DOMAIN products =>
                    products'[item.product_id].quantity = call[k].read - item.quantity
      ]_vars

\* two stored sales of one product whose calls read the same quantity q,
\* each asking for at most q and together for more than q
C3_Oversold ==
    /\ Len(sales) = 2
    /\ Len(sales[1].items) = 1 /\ Len(sales[2].items) = 1
    /\ sales[1].items[1].product_id = sales[2].items[1].product_id
    /\ audit[1].reads[1] = audit[2].reads[1]
    /\ sales[1].items[1].quantity > 0 /\ sales[2].items[1].quantity > 0
    /\ sales[1].items[1].quantity <= audit[1].reads[1]
    /\ sales[2].items[1].quantity <= audit[1].reads[1]
    /\ sales[1].items[1].quantity + sales[2].items[1].quantity > audit[1].reads[1]
    /\ products[sales[1].items[1].product_id].quantity
          > audit[1].reads[1] - sales[1].items[1].quantity - sales[2].items[1].quantity

\* C4, as amended: when a create_sale that ran alone is refused for want of
\* stock at its item n, the detail names the product of item n, which holds
\* less than item n asks for, no sale has been stored, and every product
\* holds what it held at the start less what items 1..n-1 asked of it.
C4_PartialDeduction ==
    (SaleRefused /\ resp.arg.alone) =>
        LET a == resp.arg
            failing == a.items[a.idx].product_id IN
        /\ failing \in DOMAIN products
        /\ resp.detail.ref = products[failing].name
        /\ products[failing].quantity < a.items[a.idx].quantity
        /\ Len(sales) = a.nsales
        /\ DOMAIN products = DOMAIN a.start
        /\ \A p \in DOMAIN products :
              products[p].quantity
                 = a.start[p].quantity - Requested(SubSeq(a.items, 1, a.idx - 1), p)

\* a call refused at its second item after its first item was deducted
C4_Witness ==
    /\ SaleRefused /\ resp.arg.alone
    /\ resp.arg.idx = 2
    /\ products[resp.arg.items[1].product_id].quantity
          < resp.arg.start[resp.arg.items[1].product_id].quantity
    /\ resp.arg.items[1].product_id # resp.arg.items[2].product_id

\* C4, as claimed: a call that repeats, alone, the request just refused at
\* its item n deducts items 1..n-1 again.
C4_RepeatDeductsAgain ==
    (SaleAnswered /\ resp.arg.alone /\ resp.arg.again > 1) =>
        \A p \in DOMAIN products :
            products[p].quantity
               = resp.arg.start[p].quantity
                    - Requested(SubSeq(resp.arg.items, 1, resp.arg.again - 1), p)

\* C5: a create_sale that ran alone, for a stored customer, with a single
\* item asking for no more than the product holds, succeeds, leaves the
\* product with its quantity less the quantity asked, and stores one sale.
C5_SingleItemSale ==
    (/\ SaleAnswered /\ resp.arg.alone
     /\ Len(resp.arg.items) = 1
     /\ resp.arg.items[1].product_id \in DOMAIN resp.arg.start
     /\ resp.arg.items[1].quantity
           <= resp.arg.start[resp.arg.items[1].product_id].quantity)
    => LET item == resp.arg.items[1] IN
       /\ resp.status = 200
       /\ products[item.product_id].quantity
             = resp.arg.start[item.product_id].quantity - item.quantity
       /\ Len(sales) = resp.arg.nsales + 1

\* one unit of a product holding two is asked for and sold, leaving one
C5_Witness ==
    /\ SaleStored /\ resp.arg.alone
    /\ Len(resp.arg.items) = 1
    /\ resp.arg.items[1].quantity = 1
    /\ resp.arg.start[resp.arg.items[1].product_id].quantity = 2
    /\ products[resp.arg.items[1].product_id].quantity = 1

\* C6: the sale a successful create_sale returns is the one it stored; its
\* total is the sum of the line totals supplied, its items are the
\* request's in the same order, and its customer name is the name the
\* customer had when the call resolved the customer.
C6_SaleAsSupplied ==
    SaleStored =>
        /\ resp.body = sales[Len(sales)]
        /\ resp.body.items = resp.arg.items
        /\ resp.body.total_amount = SumTotals(resp.arg.items)
        /\ resp.body.customer_id = resp.arg.customer_id
        /\ resp.body.customer_name = resp.arg.customer_name

\* a stored sale of two different items whose total is not price x quantity
\* and whose customer has been renamed since the call resolved it
C6_Witness ==
    /\ SaleStored
    /\ Len(resp.body.items) = 2
    /\ resp.body.items[1] # resp.body.items[2]
    /\ resp.body.total_amount # SumPriced(resp.body.items)
    /\ resp.body.customer_name # customers[resp.body.customer_id].name

\* C11: a stored sale stays stored, at its place and with its contents
\* (customer, customer name, items, total), through every step, among them
\* updates and deletions of the customer and of the product it refers to;
\* and
\* the listing of the sales returns exactly the stored sales, none before a
\* sale created later.
C11_SaleImmutable ==
    [][/\ \A i \in 1..Len(sales) : Len(sales') >= i /\ sales'[i] = sales[i]
       /\ (resp'.op = "get_sales" /\ resp'.status = 200) =>
             /\ Len(resp'.body) = Len(sales)
             /\ \A i \in 1..Len(sales) : \E j \in 1..Len(sales) : resp'.body[j] = sales[i]
             /\ \A i, j \in 1..Len(sales) :
                   i < j => resp'.body[i].created_at >= resp'.body[j].created_at
      ]_vars

\* two sales are listed after their customer was renamed between the two
\* and then deleted, and their product was deleted; the sale stored first
\* was created last
C11_Witness ==
    /\ resp.op = "get_sales" /\ resp.status = 200
    /\ Len(sales) = 2
    /\ sales[1].created_at > sales[2].created_at
    /\ resp.body = <<sales[1], sales[2]>>
    /\ sales[1].customer_id = sales[2].customer_id
    /\ sales[1].customer_name # sales[2].customer_name
    /\ sales[1].customer_id \notin DOMAIN customers
    /\ sales[1].items[1].product_id \notin DOMAIN products

\* the step is the write of a create_sale for product p
WritesStock(p) ==
    \E k \in Calls :
        /\ call[k].pc = "write" /\ call'[k].pc # "write"
        /\ call[k].items[call[k].idx].product_id = p

\* C12: a step changes the quantity of a product that stays stored only if
\* it is the write of a create_sale for that product, which lowers the
\* quantity, or an update_product of that product, which stores the
\* quantity supplied.  An item with a negative quantity passes the stock
\* check and its write raises the quantity, so this fails.
C12_QuantityFrame ==
    [][\A p \in DOMAIN products \cap DOMAIN products' :
          products'[p].quantity # products[p].quantity =>
              \/ /\ WritesStock(p)
                 /\ products'[p].quantity < products[p].quantity
              \/ /\ resp'.op = "update_product" /\ resp'.status = 200
                 /\ resp'.arg.id = p
                 /\ products'[p].quantity = resp'.body.quantity
      ]_vars

\* the step is the customer lookup of call k
ResolvesCustomer(k) == call[k].pc = "customer" /\ call'[k].pc # "customer"

\* C14: a create_sale looks its customer up before it reads or writes any
\* product, and gets to its items only with a customer that is stored; a
\* lookup that matches no stored customer answers 400, "Customer not
\* found", whatever the items, ends the call, and leaves the products, the
\* sales and the rest of the store as they were.
C14_CustomerFirst ==
    [][/\ \A k \in Calls :
             /\ call[k].pc \in {"find_user", "customer"} =>
                   call[k].idx = 0 /\ call[k].reads = <<>>
             /\ call[k].pc \in {"idle", "find_user"} =>
                   call'[k].pc \in {"idle", "find_user", "customer"}
             /\ (ResolvesCustomer(k) /\ call'[k].pc # "idle") =>
                   call[k].customer_id \in DOMAIN customers
             /\ (ResolvesCustomer(k) /\ call[k].customer_id \notin DOMAIN customers) =>
                   /\ resp'.op = "create_sale"
                   /\ resp'.status = 400
                   /\ resp'.detail.msg = "Customer not found"
                   /\ resp'.arg.customer_id = call[k].customer_id
                   /\ resp'.arg.items = call[k].items
                   /\ store' = store
                   /\ call'[k].pc = "idle"
                   /\ \A o \in Calls \ {k} : call'[o].pc = call[o].pc
       /\ (resp'.op = "create_sale" /\ resp'.detail.msg = "Customer not found") =>
             resp'.arg.customer_id \notin DOMAIN customers
      ]_vars

\* a request refused for its customer, which was stored and has been
\* deleted, whose two items are both in stock
C14_Witness ==
    /\ resp.op = "create_sale"
    /\ resp.detail.msg = "Customer not found"
    /\ resp.arg.customer_id = "c1"
    /\ Len(resp.arg.items) = 2
    /\ \A p \in Asked(resp.arg.items) :
          /\ p \in DOMAIN products
          /\ products[p].quantity >= Requested(resp.arg.items, p)
    /\ sales = <<>>

\* C15: a create_sale that ran alone and was refused at its item n was
\* refused with "Product not found" exactly when the product of item n is
\* not stored; then the detail names the product_id of item n, no sale has
\* been stored, the products of items 1..n-1 were all found, and every
\* product holds what it held at the start less what items 1..n-1 asked of
\* it: items n and later have had no effect.  A call that stored its sale
\* found the product of every item.
C15_MissingProduct ==
    /\ (SaleAnswered /\ resp.arg.alone /\ resp.status = 400) =>
          LET a == resp.arg
              missing == a.items[a.idx].product_id IN
          /\ (resp.detail.msg = "Product not found") <=> (missing \notin DOMAIN a.start)
          /\ (resp.detail.msg = "Product not found") =>
                /\ resp.detail.ref = missing
                /\ Len(sales) = a.nsales
                /\ DOMAIN products = DOMAIN a.start
                /\ \A i \in 1..(a.idx - 1) : a.items[i].product_id \in DOMAIN a.start
                /\ \A p \in DOMAIN products :
                      products[p].quantity
                         = a.start[p].quantity - Requested(SubSeq(a.items, 1, a.idx - 1), p)
    /\ (SaleStored /\ resp.arg.alone) =>
          \A i \in 1..Len(resp.arg.items) : resp.arg.items[i].product_id \in DOMAIN products

\* a call refused at its first item, whose product is not stored, while the
\* product of its second item is in stock and stays as it was
C15_Witness ==
    /\ SaleAnswered /\ resp.arg.alone
    /\ resp.detail.msg = "Product not found"
    /\ resp.arg.idx = 1
    /\ Len(resp.arg.items) = 2
    /\ resp.arg.items[2].product_id \in DOMAIN products
    /\ products[resp.arg.items[2].product_id].quantity >= resp.arg.items[2].quantity
    /\ products = resp.arg.start

\* C17: when no quantity given to create_product, update_product or an
\* item of create_sale is negative, no stored quantity is negative, whatever
\* the interleaving of the calls: a call that is about to write has read a
\* quantity that is at least the quantity it asks for, and writes the
\* difference.
C17_NeverNegative ==
    /\ \A p \in DOMAIN products : products[p].quantity >= 0
    /\ \A k \in Calls :
          call[k].pc = "write" =>
              /\ call[k].read >= call[k].items[call[k].idx].quantity
              /\ new_quantity(call[k].read, 0, call[k].items[call[k].idx].quantity) >= 0

\* two calls have each read the whole stock of p1, asked for all of it and
\* stored their sale: one deduction is lost and the product holds nothing
C17_Witness ==
    /\ Len(sales) = 2
    /\ audit[1].reads = audit[2].reads
    /\ audit[1].reads[1] > 0
    /\ sales[1].items[1].quantity = audit[1].reads[1]
    /\ sales[2].items[1].quantity = audit[2].reads[1]
    /\ ~audit[1].alone
    /\ products["p1"].quantity = 0

(***************************************************************************)
(* Properties of the guard.                                                *)
(***************************************************************************)
Gated == {"delete_vendor", "delete_customer", "delete_product", "update_company"}

\* C7: a step of a gated endpoint whose caller resolves to a standard
\* identity answers 403 and changes no stored data; one whose caller
\* resolves to an elevated identity never answers 403.
C7_GatedByRole ==
    [][(resp'.op \in Gated) =>
          /\ resp'.who.role = USER =>
                /\ resp'.status = 403
                /\ resp'.detail.msg = "Admin access required"
                /\ store' = store
          /\ resp'.who.role = ADMIN => resp'.status # 403
      ]_vars

\* the clerk is refused the deletion of a stored vendor after the
\* administrator has deleted a customer
C7_Witness ==
    /\ resp.op = "delete_vendor"
    /\ resp.who.role = USER
    /\ resp.status = 403
    /\ resp.arg.id \in DOMAIN vendors
    /\ customers = EmptyColl

\* the mutating endpoints that ask for no role
Ungated ==
    {"create_vendor", "update_vendor", "create_customer", "update_customer",
     "create_product", "update_product", "create_sale"}

\* credentials that are malformed, expired or name no stored identity
BadTokens ==
    {ForgedToken, NoSubToken, StrangerToken} \cup {t \in Issued : t.exp < clock}

\* C13: get_current_user answers 401 for every malformed or expired token
\* and every token whose subject is not stored; a step of an endpoint behind
\* the guard that does not resolve its caller (no credentials among the
\* cases) answers 401 and changes no stored data; and a step of a mutating
\* endpoint that asks for no role never answers 403 to a resolved caller.
\* A request without credentials is answered by HTTPBearer, with 403 in the
\* releases of the library of the repository's time, so this fails.
C13_Unauthorized ==
    [][/\ \A t \in BadTokens, rule \in JwtRules : get_current_user(t, rule).status = 401
       /\ (resp'.op \in Guarded /\ resp'.who = NoUser) =>
             /\ resp'.status = 401
             /\ store' = store
       /\ (resp'.op \in Ungated /\ resp'.who.role \in UserRole) => resp'.status # 403
      ]_vars

\* the step answered an update or a delete of op's collection, by a caller
\* the endpoint admits, for an id that matched no stored document
Untargeted(op, coll) ==
    /\ resp'.op = op
    /\ resp'.status \notin {401, 403}
    /\ resp'.arg.id \notin DOMAIN coll

\* the step is the replace_one of an update_product in flight
ReplacesProduct ==
    \E r \in Reqs : req[r].pc = "replace_product" /\ req'[r].pc = "idle"

\* C16, as amended: such a step answers 404 and leaves the collection as it
\* was, except that update_product looks the vendor of the request up
\* first: when that vendor is not stored at that moment it answers 400,
\* "Vendor not found", and leaves the products as they were; when it is,
\* the replacement that follows answers 404 for an id that matches no
\* product by then, whether or not the vendor is still stored.
C16_NotFoundAfterVendor ==
    [][/\ \A op \in {"update_vendor", "delete_vendor"} :
             Untargeted(op, vendors) => resp'.status = 404 /\ vendors' = vendors
       /\ \A op \in {"update_customer", "delete_customer"} :
             Untargeted(op, customers) => resp'.status = 404 /\ customers' = customers
       /\ Untargeted("delete_product", products) =>
             resp'.status = 404 /\ products' = products
       /\ Untargeted("update_product", products) =>
             /\ products' = products
             /\ IF ReplacesProduct
                THEN resp'.status = 404 /\ resp'.detail.msg = "Product not found"
                ELSE /\ resp'.status = 400 /\ resp'.detail.msg = "Vendor not found"
                     /\ resp'.arg.vendor_id \notin DOMAIN vendors
       /\ \A r \in Reqs :
             (req[r].pc = "find_vendor_of_update" /\ req'[r].pc = "replace_product") =>
                req[r].arg.vendor_id \in DOMAIN vendors
      ]_vars

\* an update of a product that is not stored answered 404 while another
\* product is stored, after the vendor it had found was deleted
C16_Witness ==
    /\ resp.op = "update_product"
    /\ resp.status = 404
    /\ resp.arg.id \notin DOMAIN products
    /\ resp.arg.vendor_id \notin DOMAIN vendors
    /\ products # EmptyColl

\* C16, as claimed: every such step answers 404 and leaves the collection
\* as it was.
C16_NotFound ==
    [][/\ \A op \in {"update_vendor", "delete_vendor"} :
             Untargeted(op, vendors) => resp'.status = 404 /\ vendors' = vendors
       /\ \A op \in {"update_customer", "delete_customer"} :
             Untargeted(op, customers) => resp'.status = 404 /\ customers' = customers
       /\ \A op \in {"update_product", "delete_product"} :
             Untargeted(op, products) => resp'.status = 404 /\ products' = products
      ]_vars

\* C8: no two stored identities share a username, and no two an email.
C8_UniqueIdentities ==
    \A i, j \in 1..Len(users) :
        i # j => users[i].username # users[j].username /\ users[i].email # users[j].email

NameTaken(u) == \E i \in 1..Len(users) : users[i].username = u
EmailTaken(e) == \E i \in 1..Len(users) : users[i].email = e

\* C9: a register whose username or email is that of a stored identity when
\* it looks the two up does not go on to its insert: it answers 400,
\* "Username or email already exists", and the identities stay as they are.
C9_DuplicateRefused ==
    [][/\ \A r \in Regs :
             (reg[r].pc = "idle" /\ reg'[r].pc = "insert") =>
                 /\ ~NameTaken(reg'[r].username)
                 /\ ~EmailTaken(reg'[r].email)
       /\ (resp'.op = "register" /\ resp'.status # 200) =>
             /\ resp'.status = 400
             /\ resp'.detail.msg = "Username or email already exists"
             /\ NameTaken(resp'.arg.username) \/ EmailTaken(resp'.arg.email)
             /\ users' = users
             /\ reg' = reg
      ]_vars

\* a register refused for its email alone: the username is new
C9_Witness ==
    /\ resp.op = "register"
    /\ resp.status = 400
    /\ ~NameTaken(resp.arg.username)
    /\ EmailTaken(resp.arg.email)

\* the identity login returned with token t
Granted(t) == (CHOOSE g \in tokens : g.access_token = t).user

\* C10, as amended: login answers with a token whose subject is the
\* username and whose expiry is 30 minutes after the clock; the guard checks
\* a token once, when the request arrives: a request that presents a token
\* handed out and arrives before its expiry is resolved to the identity
\* login returned, whatever has happened since and also when the lookup of
\* the caller returns after the expiry, and one that arrives after the
\* expiry is answered 401.
C10_TokenLifetimeOnArrival ==
    /\ (resp.op = "login" /\ resp.status = 200) =>
          /\ resp.body.access_token.sub = resp.arg.username
          /\ resp.body.user.username = resp.arg.username
          /\ resp.body.access_token.exp = clock + 30 * 60
          /\ resp.body \in tokens
    /\ \A g \in tokens, rule \in JwtRules :
          /\ clock < g.access_token.exp =>
                /\ get_current_user(g.access_token, rule).status = 200
                /\ get_current_user(g.access_token, rule).user = g.user
                /\ g.user.username = g.access_token.sub
          /\ clock > g.access_token.exp =>
                get_current_user(g.access_token, rule).status = 401
    /\ \A r \in Reqs :
          (req[r].pc = "find_user" /\ req[r].token \in Issued) =>
              /\ current_user(req[r].token.sub).status = 200
              /\ current_user(req[r].token.sub).user = Granted(req[r].token)
    /\ (resp.op = "me" /\ resp.arg.token \in Issued) =>
          /\ resp.arg.at < resp.arg.token.exp =>
                resp.status = 200 /\ resp.body = Granted(resp.arg.token)
          /\ resp.arg.at > resp.arg.token.exp => resp.status = 401

\* GET /auth/me arrived with a token before its expiry and is answered,
\* with the identity, after it, a second identity having been registered
C10_Witness ==
    /\ resp.op = "me"
    /\ resp.arg.token \in Issued
    /\ resp.arg.at < resp.arg.token.exp
    /\ clock > resp.arg.token.exp
    /\ resp.status = 200
    /\ Len(users) = 2

\* C10, as claimed: at every time before the expiry of a token handed out
\* the guard resolves it to the identity login returned, and at every time
\* after, to a 401.
C10_TokenLifetime ==
    /\ (resp.op = "login" /\ resp.status = 200) =>
          /\ resp.body.access_token.sub = resp.arg.username
          /\ resp.body.user.username = resp.arg.username
          /\ resp.body.access_token.exp = clock + 30 * 60
          /\ resp.body \in tokens
    /\ (resp.op = "me" /\ resp.arg.token \in Issued) =>
          /\ clock < resp.arg.token.exp =>
                resp.status = 200 /\ resp.body = Granted(resp.arg.token)
          /\ clock > resp.arg.token.exp => resp.status = 401

=============================================================================
